---- MODULE Spec2Model ----
(***************************************************************************)
(* Model of examples/secconquals2016_ropsynth/solve.py: the chain stitcher *)
(* (postprocess_chain), guard recovery and chain assembly (get_gadgets)    *)
(* and the five-round driver (test).                                       *)
(*                                                                         *)
(* Byte strings are sequences of byte values 0..255.  The analysis engines *)
(* (angr's CFG and path group, claripy's solver, angrop) and the challenge *)
(* process are the environment: what they deliver is chosen from small     *)
(* sets, what the script does with it is translated from the script.       *)
(***************************************************************************)
EXTENDS Integers, Sequences, FiniteSets, TLC

VARIABLES
    pc,               \* position of the script (phase of the round)
    round,            \* 1-based number of the iteration of "for _ in range(5)"
    error,            \* "" or the exception that ended the run
    eof,              \* the challenge process has closed its stdout
    gadgets,          \* test(): the blob read so far (line 194-196)
    functions,        \* cfg.functions.values()
    fidx,             \* index of the function the recovery loop is at
    guard_solutions,  \* get_gadgets(): address -> byte string (line 81, 135)
    recovered,        \* history: what line 135 stored since this round began
    patched,          \* addresses overwritten with ret (line 141)
    rop_gadgets,      \* r.gadgets
    chains,           \* the chains made by do_syscall (line 154)
    guarded_chains,   \* results of postprocess_chain (line 166, 173)
    final_payload,    \* line 178
    stdin_pipe,       \* the payload written to the process and not yet judged
    nsubmit,          \* number of writes to r.stdin so far
    status            \* line 209

vars == <<pc, round, error, eof, gadgets, functions, fidx, guard_solutions,
          recovered, patched, rop_gadgets, chains, guarded_chains,
          final_payload, stdin_pipe, nsubmit, status>>

(***************************************************************************)
(* Bounds of the model.                                                    *)
(***************************************************************************)
MaxChainLen == 2     \* gadgets per chain handed to the stitcher alone
ExtraBytes  == 2     \* payload bytes beyond 8 + sum of stack changes
FuncExtent  == 2     \* a function occupies entry .. entry + FuncExtent
MaxBlob     == 2     \* blob characters delivered before newline or EOF
MaxFuncs    == 2     \* functions the CFG recovers from an image

(***************************************************************************)
(* Program constants.                                                      *)
(***************************************************************************)
NumRounds   == 5
AddrSize    == 8
InsertIndex == 2

Min(a, b) == IF a < b THEN a ELSE b
Max(a, b) == IF a > b THEN a ELSE b

RECURSIVE Flatten(_)
\* "".join(list)
Flatten(ss) == IF ss = <<>> THEN <<>> ELSE Head(ss) \o Flatten(Tail(ss))

\* The empty dict.
EmptyMap == [a \in {} |-> <<>>]

(***************************************************************************)
(* Python string slicing: an index is clamped to the string, a negative    *)
(* one counts from the end.                                                *)
(***************************************************************************)
SliceIndex(n, len) == IF n < 0 THEN Max(len + n, 0) ELSE Min(n, len)

\* s[:n]
SliceTo(s, n) == SubSeq(s, 1, SliceIndex(n, Len(s)))

\* s[n:]
SliceFrom(s, n) == SubSeq(s, SliceIndex(n, Len(s)) + 1, Len(s))

\* struct.pack("<Q", a) for an address below 2^24: little-endian, 8 bytes.
struct_pack_Q(a) ==
    [i \in 1..8 |-> CASE i = 1 -> a % 256
                      [] i = 2 -> (a \div 256) % 256
                      [] i = 3 -> (a \div 65536) % 256
                      [] OTHER -> 0]

(***************************************************************************)
(* postprocess_chain.  A chain is [gadgets |-> sequence of gadgets,        *)
(* payload |-> chain.payload_str()], a gadget [addr, stack_change].  The   *)
(* loop state is [payload, guarded_chain, err].                            *)
(***************************************************************************)
\* faulty variant: the next gadget's address slot is consumed but not copied
LoopBody_dropslot(st, g, gs) ==
    LET filler == SliceTo(st.payload, g.stack_change - AddrSize)
        rest   == SliceFrom(st.payload, g.stack_change - AddrSize)
    IN  IF g.addr \notin DOMAIN gs
        THEN [payload       |-> rest,
              guarded_chain |-> st.guarded_chain \o filler,
              err           |-> "KeyError"]
        ELSE [payload       |-> SliceFrom(rest, AddrSize),
              guarded_chain |-> st.guarded_chain \o filler \o gs[g.addr],
              err           |-> ""]

\* faulty variant: the solution goes in before the words the gadget pops
LoopBody_solfirst(st, g, gs) ==
    LET filler == SliceTo(st.payload, g.stack_change - AddrSize)
        rest   == SliceFrom(st.payload, g.stack_change - AddrSize)
    IN  IF g.addr \notin DOMAIN gs
        THEN [payload       |-> rest,
              guarded_chain |-> st.guarded_chain \o filler,
              err           |-> "KeyError"]
        ELSE [payload       |-> SliceFrom(rest, AddrSize),
              guarded_chain |-> st.guarded_chain \o gs[g.addr] \o filler
                                  \o SliceTo(rest, AddrSize),
              err           |-> ""]

\* lines 57-64; guard_solutions[g.addr] raises KeyError on a missing key
LoopBody(st, g, gs) ==
    LET filler == SliceTo(st.payload, g.stack_change - AddrSize)
        rest   == SliceFrom(st.payload, g.stack_change - AddrSize)
    IN  IF g.addr \notin DOMAIN gs
        THEN [payload       |-> rest,
              guarded_chain |-> st.guarded_chain \o filler,
              err           |-> "KeyError"]
        ELSE [payload       |-> SliceFrom(rest, AddrSize),
              guarded_chain |-> st.guarded_chain \o filler \o gs[g.addr]
                                  \o SliceTo(rest, AddrSize),
              err           |-> ""]

RECURSIVE StitchLoop(_, _, _)
\* line 54: for g in chain._gadgets
StitchLoop(st, gs_list, gs) ==
    IF gs_list = <<>> \/ st.err # ""
    THEN st
    ELSE StitchLoop(LoopBody(st, Head(gs_list), gs), Tail(gs_list), gs)

\* faulty variant: the assertion left out
FinalAssert_none(payload) == TRUE

\* line 66: assert len(payload) == 0
FinalAssert(payload) == Len(payload) = 0

\* postprocess_chain(chain, guard_solutions): [err, out]
postprocess_chain(chain, gs) ==
    LET st0 == [payload       |-> SliceFrom(chain.payload, AddrSize),
                guarded_chain |-> SliceTo(chain.payload, AddrSize),
                err           |-> ""]
        st  == StitchLoop(st0, chain.gadgets, gs)
    IN  IF st.err # "" THEN [err |-> st.err, out |-> <<>>]
        ELSE IF ~FinalAssert(st.payload)
             THEN [err |-> "AssertionError", out |-> <<>>]
             ELSE [err |-> "", out |-> st.guarded_chain]

(***************************************************************************)
(* What the analysis engines deliver.  A function is [addr, nblocks,       *)
(* unconstrained]: unconstrained is pg.unconstrained after pg.explore, a   *)
(* sequence of paths.  A path is [guards, actions, model]: guards are      *)
(* [symbolic, leaf] (leaf: the first symbolic leaf of the guard, a stack   *)
(* word 'w<leaf>'), actions are [type, action, ins_addr, variables], and   *)
(* model gives the 8 bytes the solver assigns to each stack word.          *)
(***************************************************************************)
Word(b) == [i \in 1..8 |-> b + i]

\* the solver's model of the stack words on a good path
SolverModel == [v \in 1..3 |-> Word(200 + 10 * v)]

Entry(k) == (k - 1) * (FuncExtent + 1)

GuardLists == {<<1>>, <<2, 1>>}

Malformed(e) == [addr |-> e, nblocks |-> 1, unconstrained |-> <<>>]

NoPath(e) == [addr |-> e, nblocks |-> 2, unconstrained |-> <<>>]

RetRead(a) ==
    [type |-> "mem", action |-> "read", ins_addr |-> a, variables |-> {3}]

\* a path through a gadget whose checks start at b and test the words of gl
GuardedPath(e, b, gl) ==
    [guards  |-> <<[symbolic |-> FALSE, leaf |-> 0]>>
                   \o [i \in 1..Len(gl) |-> [symbolic |-> TRUE, leaf |-> gl[i]]],
     actions |-> <<[type |-> "reg", action |-> "read", ins_addr |-> e,
                    variables |-> {gl[1]}],
                   [type |-> "mem", action |-> "write", ins_addr |-> e,
                    variables |-> {gl[1]}]>>
                   \o [i \in 1..Len(gl) |->
                         [type |-> "mem", action |-> "read",
                          ins_addr |-> Min(b + Len(gl) - i, e + FuncExtent),
                          variables |-> {gl[Len(gl) + 1 - i]}]]
                   \o <<RetRead(e + FuncExtent)>>,
     model   |-> SolverModel]

Guarded(e, b, gl) ==
    [addr |-> e, nblocks |-> 2, unconstrained |-> <<GuardedPath(e, b, gl)>>]

\* an unconditional gadget: no symbolic guard on its path
ZeroGuards(e, withRet) ==
    [addr |-> e, nblocks |-> 2,
     unconstrained |->
        <<[guards  |-> <<[symbolic |-> FALSE, leaf |-> 0]>>,
           actions |-> IF withRet THEN <<RetRead(e)>> ELSE <<>>,
           model   |-> SolverModel]>>]

\* symbolic guards, but no memory read of their words
Inconsistent(e) ==
    [addr |-> e, nblocks |-> 2,
     unconstrained |->
        <<[guards  |-> <<[symbolic |-> TRUE, leaf |-> 1]>>,
           actions |-> <<RetRead(e + FuncExtent)>>,
           model   |-> SolverModel]>>]

Variants(e) ==
    {Malformed(e), NoPath(e), ZeroGuards(e, TRUE), ZeroGuards(e, FALSE),
     Inconsistent(e)}
    \cup {Guarded(e, b, gl) : b \in e..(e + FuncExtent), gl \in GuardLists}

RoundVariants(e) ==
    {Malformed(e), NoPath(e), Guarded(e, e + 1, <<1>>),
     Guarded(e, e + FuncExtent, <<2, 1>>)}

\* the function lists a CFG may hold: one function per gadget, in address order
ImagesOver(U) == UNION {[1..n -> U] : n \in 0..MaxFuncs}

WellPlaced(fs) == \A k \in 1..Len(fs) : fs[k].addr = Entry(k)

AllImages ==
    {fs \in ImagesOver(UNION {Variants(Entry(k)) : k \in 1..MaxFuncs}) :
        WellPlaced(fs)}

RoundImages ==
    {fs \in ImagesOver(UNION {RoundVariants(Entry(k)) : k \in 1..MaxFuncs}) :
        WellPlaced(fs)}

(***************************************************************************)
(* Guard recovery: the body of the loop over cfg.functions.values().       *)
(***************************************************************************)
\* lines 112-115: one leaf per symbolic guard, sorted by variable name
symbolic_guard_guys(path) ==
    LET syms == SelectSeq(path.guards, LAMBDA g : g.symbolic)
    IN  SortSeq([i \in 1..Len(syms) |-> syms[i].leaf], LAMBDA a, b : a < b)

IsMemRead(act) == act.type = "mem" /\ act.action = "read"

\* lines 124-128: the instruction addresses min() ranges over
CheckReads(path, guys) ==
    {path.actions[i].ins_addr : i \in
        {j \in 1..Len(path.actions) :
            /\ IsMemRead(path.actions[j])
            /\ path.actions[j].variables
                 \cap {guys[k] : k \in 1..Len(guys)} # {}}}

\* the exception lines 123-129 raise, or ""
ChecksError(path, guys) ==
    IF guys = <<>>
    THEN IF \E j \in 1..Len(path.actions) : IsMemRead(path.actions[j])
         THEN "TypeError"     \* frozenset.union() of no argument
         ELSE "ValueError"    \* min() of an empty sequence
    ELSE IF CheckReads(path, guys) = {} THEN "ValueError" ELSE ""

SetMin(S) == CHOOSE x \in S : \A y \in S : x <= y

\* line 123
start_of_checks(path) == SetMin(CheckReads(path, symbolic_guard_guys(path)))

\* line 135: se.any_str(claripy.Concat(*symbolic_guard_guys))
any_str(path, guys) == Flatten([i \in 1..Len(guys) |-> path.model[guys[i]]])

\* faulty variant: the range starts one address late
RecordRange_late(entry, start) == (entry + 1)..(start - 1)

\* line 134: range(f.addr, start_of_checks)
RecordRange(entry, start) == entry..(start - 1)

\* lines 134-135: the entries the inner loop stores
Writes(entry, start, sol) == [a \in RecordRange(entry, start) |-> sol]

\* dict assignment: the entries of w replace or extend those of gs
Store(gs, w) ==
    [a \in DOMAIN gs \cup DOMAIN w |-> IF a \in DOMAIN w THEN w[a] ELSE gs[a]]

\* lines 83-142 for one function: [err, writes, patch]
RecoverOne(f) ==
    IF f.nblocks <= 1
    THEN [err |-> "", writes |-> EmptyMap, patch |-> {}]
    ELSE IF f.unconstrained = <<>>
    THEN [err |-> "IndexError", writes |-> EmptyMap, patch |-> {}]
    ELSE LET good_path == f.unconstrained[1]
             guys      == symbolic_guard_guys(good_path)
             err       == ChecksError(good_path, guys)
         IN  IF err # ""
             THEN [err |-> err, writes |-> EmptyMap, patch |-> {}]
             ELSE [err    |-> "",
                   writes |-> Writes(f.addr, start_of_checks(good_path),
                                     any_str(good_path, guys)),
                   patch  |-> {start_of_checks(good_path)}]

(***************************************************************************)
(* What angrop delivers: r.gadgets and the chains of do_syscall.  A gadget *)
(* is [addr, stack_change, reg_moves], a register move [from_reg, to_reg]. *)
(***************************************************************************)
GadgetAt(a, moves) ==
    [addr |-> a, stack_change |-> AddrSize * (1 + (a % 3)), reg_moves |-> moves]

RaxToRdx == [from_reg |-> "rax", to_reg |-> "rdx"]
RbxToRdx == [from_reg |-> "rbx", to_reg |-> "rdx"]

Filler(n) == [i \in 1..n |-> 64 + i]

RECURSIVE RawPayload(_)
\* the payload angrop lays out: each gadget's address, then the words it pops
RawPayload(gl) ==
    IF gl = <<>> THEN <<>>
    ELSE struct_pack_Q(Head(gl).addr)
           \o Filler(Head(gl).stack_change - AddrSize) \o RawPayload(Tail(gl))

\* a chain over the gadgets at addrs, with tail more bytes after the last one
MkChain(addrs, tail) ==
    LET gl == [i \in 1..Len(addrs) |-> GadgetAt(addrs[i], <<>>)]
    IN  [gadgets |-> gl, payload |-> RawPayload(gl) \o Filler(tail)]

ChainCatalog ==
    {MkChain(<<Entry(1)>>, 0),
     MkChain(<<Entry(1) + 1, Entry(2)>>, AddrSize),
     MkChain(<<Entry(2) + 1>>, 0),
     MkChain(<<Entry(2)>>, AddrSize + ExtraBytes)}

GadgetCatalog ==
    {<<GadgetAt(Entry(1), <<>>)>>}
    \cup {<<GadgetAt(Entry(1), <<RbxToRdx, RaxToRdx>>), GadgetAt(a, <<RaxToRdx>>),
            GadgetAt(Entry(1), <<RaxToRdx>>)>> : a \in {Entry(1) + 1, Entry(2) + 1}}

(***************************************************************************)
(* get_gadgets after the recovery loop.                                    *)
(***************************************************************************)
\* faulty variant: only the first gadget of a chain is looked up
UnrecognizedGadgets_first(chain, gs) ==
    {chain.gadgets[i].addr : i \in
        {j \in 1..Min(1, Len(chain.gadgets)) : chain.gadgets[j].addr \notin DOMAIN gs}}

\* line 163: [ g.addr for g in chain._gadgets if not g.addr in guard_solutions ]
UnrecognizedGadgets(chain, gs) ==
    {chain.gadgets[i].addr : i \in
        {j \in 1..Len(chain.gadgets) : chain.gadgets[j].addr \notin DOMAIN gs}}

\* line 171: the gadgets whose first register move is rax -> rdx, in order
MovCandidates(gl) ==
    SelectSeq(gl, LAMBDA g : /\ g.reg_moves # <<>>
                             /\ g.reg_moves[1].from_reg = "rax"
                             /\ g.reg_moves[1].to_reg = "rdx")

\* list.insert(i, x)
ListInsert(l, i, x) ==
    SubSeq(l, 1, Min(i, Len(l))) \o <<x>> \o SubSeq(l, Min(i, Len(l)) + 1, Len(l))

\* faulty variant: the move chain goes in one place early
InsertMoveChain_early(gc, mov_chain) == ListInsert(gc, InsertIndex - 1, mov_chain)

\* line 173
InsertMoveChain(gc, mov_chain) == ListInsert(gc, InsertIndex, mov_chain)

\* faulty variant: one dict for every round
FreshGuardSolutions_shared == guard_solutions

\* line 81: guard_solutions = { }
FreshGuardSolutions == EmptyMap

\* faulty variant: the status is not looked at
StatusOk_any(s) == TRUE

\* line 210: assert status == "OK"
StatusOk(s) == s = "OK"

EndsWithNewline(s) == s # <<>> /\ s[Len(s)] = "\n"

(***************************************************************************)
(* The actions.  Abort is an uncaught exception: the script ends.          *)
(***************************************************************************)
Abort(e) == pc' = "aborted" /\ error' = e

\* lines 188-194: the preamble; a read at end of stream returns ''
AwaitGadgets ==
    /\ pc = "AWAIT_GADGETS"
    /\ pc' = "READ_BLOB"
    /\ gadgets' = <<>>
    /\ recovered' = EmptyMap
    /\ \E e \in (IF eof THEN {TRUE} ELSE BOOLEAN) : eof' = e
    /\ UNCHANGED <<round, error, functions, fidx, guard_solutions, patched,
                   rop_gadgets, chains, guarded_chains, final_payload,
                   stdin_pipe, nsubmit, status>>

\* line 195: the loop test finds no newline at the end of the blob
BlobTest ==
    /\ pc = "READ_BLOB"
    /\ ~EndsWithNewline(gadgets)
    /\ pc' = "READ_BYTE"
    /\ UNCHANGED <<round, error, eof, gadgets, functions, fidx, guard_solutions,
                   recovered, patched, rop_gadgets, chains, guarded_chains,
                   final_payload, stdin_pipe, nsubmit, status>>

\* line 196: gadgets += r.stdout.read(1); read returns a character, or '' at
\* end of stream
ReadByte ==
    /\ pc = "READ_BYTE"
    /\ pc' = "READ_BLOB"
    /\ \/ /\ ~eof
          /\ \E c \in {"g", "\n"} :
                /\ c = "g" => Len(gadgets) < MaxBlob
                /\ gadgets' = Append(gadgets, c)
          /\ eof' = eof
       \/ /\ eof' = TRUE
          /\ gadgets' = gadgets \o <<>>
    /\ UNCHANGED <<round, error, functions, fidx, guard_solutions,
                   recovered, patched, rop_gadgets, chains, guarded_chains,
                   final_payload, stdin_pipe, nsubmit, status>>

\* line 195 (the loop ends), 197
BlobRead ==
    /\ pc = "READ_BLOB"
    /\ EndsWithNewline(gadgets)
    /\ pc' = "BUILD_IMAGE"
    /\ gadgets' = SelectSeq(gadgets, LAMBDA c : c # "\n")
    /\ UNCHANGED <<round, error, eof, functions, fidx, guard_solutions,
                   recovered, patched, rop_gadgets, chains, guarded_chains,
                   final_payload, stdin_pipe, nsubmit, status>>

\* line 200 (make_elf), 74-81: the image is built and loaded, or
\* base64.b64decode rejects the blob
BuildImage ==
    /\ pc = "BUILD_IMAGE"
    /\ gadgets' = <<>>
    /\ \/ /\ \E fs \in RoundImages : functions' = fs
          /\ fidx' = 1
          /\ guard_solutions' = FreshGuardSolutions
          /\ patched' = {}
          /\ pc' = "RECOVER_GUARDS"
          /\ error' = error
       \/ /\ Abort("TypeError")
          /\ UNCHANGED <<functions, fidx, guard_solutions, patched>>
    /\ UNCHANGED <<round, eof, recovered, rop_gadgets, chains, guarded_chains,
                   final_payload, stdin_pipe, nsubmit, status>>

\* lines 82-142: one function of the loop
RecoverStep ==
    /\ pc = "RECOVER_GUARDS"
    /\ fidx <= Len(functions)
    /\ LET r == RecoverOne(functions[fidx])
       IN  IF r.err # ""
           THEN /\ Abort(r.err)
                /\ UNCHANGED <<fidx, guard_solutions, recovered, patched>>
           ELSE /\ guard_solutions' = Store(guard_solutions, r.writes)
                /\ recovered' = Store(recovered, r.writes)
                /\ patched' = patched \cup r.patch
                /\ fidx' = fidx + 1
                /\ UNCHANGED <<pc, error>>
    /\ UNCHANGED <<round, eof, gadgets, functions, rop_gadgets, chains,
                   guarded_chains, final_payload, stdin_pipe, nsubmit, status>>

\* line 82: the loop over the functions ends
RecoverDone ==
    /\ pc = "RECOVER_GUARDS"
    /\ fidx > Len(functions)
    /\ pc' = "SYNTHESIZE_CHAINS"
    /\ UNCHANGED <<round, error, eof, gadgets, functions, fidx, guard_solutions,
                   recovered, patched, rop_gadgets, chains, guarded_chains,
                   final_payload, stdin_pipe, nsubmit, status>>

\* lines 147-158: angrop finds the gadgets and builds the open, read and
\* write chains, or do_syscall raises RopException
Synthesize ==
    /\ pc = "SYNTHESIZE_CHAINS"
    /\ \/ /\ \E gl \in GadgetCatalog : rop_gadgets' = gl
          /\ \E c \in [1..3 -> ChainCatalog] : chains' = c
          /\ pc' = "VALIDATE"
          /\ error' = error
       \/ /\ Abort("RopException")
          /\ UNCHANGED <<rop_gadgets, chains>>
    /\ UNCHANGED <<round, eof, gadgets, functions, fidx, guard_solutions,
                   recovered, patched, guarded_chains, final_payload,
                   stdin_pipe, nsubmit, status>>

\* lines 162-163
Validate ==
    /\ pc = "VALIDATE"
    /\ IF \E i \in 1..Len(chains) :
             UnrecognizedGadgets(chains[i], guard_solutions) # {}
       THEN Abort("AssertionError")
       ELSE pc' = "STITCH" /\ error' = error
    /\ UNCHANGED <<round, eof, gadgets, functions, fidx, guard_solutions,
                   recovered, patched, rop_gadgets, chains, guarded_chains,
                   final_payload, stdin_pipe, nsubmit, status>>

\* line 166: every chain is post-processed, in order; the first exception ends
\* the script
Stitch ==
    /\ pc = "STITCH"
    /\ LET res == [i \in 1..Len(chains) |->
                     postprocess_chain(chains[i], guard_solutions)]
           bad == {i \in 1..Len(chains) : res[i].err # ""}
       IN  IF bad # {}
           THEN /\ Abort(res[SetMin(bad)].err)
                /\ guarded_chains' = guarded_chains
           ELSE /\ guarded_chains' = [i \in 1..Len(chains) |-> res[i].out]
                /\ pc' = "MOVE_CHAIN"
                /\ error' = error
    /\ UNCHANGED <<round, eof, gadgets, functions, fidx, guard_solutions,
                   recovered, patched, rop_gadgets, chains, final_payload,
                   stdin_pipe, nsubmit, status>>

\* lines 171-179: the move chain is inserted and the chains are joined;
\* get_gadgets returns and its locals other than the dict are dropped
MoveChain ==
    /\ pc = "MOVE_CHAIN"
    /\ LET cands == MovCandidates(rop_gadgets)
       IN  IF cands = <<>>
           THEN /\ Abort("StopIteration")
                /\ UNCHANGED <<functions, fidx, patched, rop_gadgets, chains,
                               guarded_chains, final_payload>>
           ELSE IF cands[1].addr \notin DOMAIN guard_solutions
           THEN /\ Abort("KeyError")
                /\ UNCHANGED <<functions, fidx, patched, rop_gadgets, chains,
                               guarded_chains, final_payload>>
           ELSE /\ final_payload' =
                     Flatten(InsertMoveChain(guarded_chains,
                                struct_pack_Q(cands[1].addr)
                                  \o guard_solutions[cands[1].addr]))
                /\ pc' = "SUBMIT"
                /\ error' = error
                /\ functions' = <<>>
                /\ fidx' = 1
                /\ patched' = {}
                /\ rop_gadgets' = <<>>
                /\ chains' = <<>>
                /\ guarded_chains' = <<>>
    /\ UNCHANGED <<round, eof, gadgets, guard_solutions, recovered, stdin_pipe,
                   nsubmit, status>>

\* line 206: base64.b64encode(chain) + "\n" goes to the process; stdin_pipe
\* holds the bytes that were encoded
Submit ==
    /\ pc = "SUBMIT"
    /\ stdin_pipe' = final_payload
    /\ final_payload' = <<>>
    /\ nsubmit' = nsubmit + 1
    /\ pc' = "AWAIT_STATUS"
    /\ UNCHANGED <<round, error, eof, gadgets, functions, fidx, guard_solutions,
                   recovered, patched, rop_gadgets, chains, guarded_chains,
                   status>>

\* lines 209-210 and the next turn of line 187: the process answers "OK",
\* something else, or nothing
AwaitStatus ==
    /\ pc = "AWAIT_STATUS"
    /\ stdin_pipe' = <<>>
    /\ \/ /\ ~eof
          /\ \E t \in {"OK", "NG"} : status' = t
          /\ eof' = eof
       \/ /\ status' = ""
          /\ eof' = TRUE
    /\ IF StatusOk(status')
       THEN /\ error' = error
            /\ IF round < NumRounds
               THEN round' = round + 1 /\ pc' = "AWAIT_GADGETS"
               ELSE round' = round /\ pc' = "READ_FLAG"
       ELSE Abort("AssertionError") /\ round' = round
    /\ UNCHANGED <<gadgets, functions, fidx, guard_solutions, recovered,
                   patched, rop_gadgets, chains, guarded_chains, final_payload,
                   nsubmit>>

\* lines 213-215
ReadFlag ==
    /\ pc = "READ_FLAG"
    /\ \/ pc' = "done" /\ error' = error /\ eof' = eof
       \/ Abort("AssertionError") /\ eof' \in {eof, TRUE}
    /\ UNCHANGED <<round, gadgets, functions, fidx, guard_solutions, recovered,
                   patched, rop_gadgets, chains, guarded_chains, final_payload,
                   stdin_pipe, nsubmit, status>>

(***************************************************************************)
(* The run of test().                                                      *)
(***************************************************************************)
Locals ==
    /\ error = ""
    /\ eof = FALSE
    /\ gadgets = <<>>
    /\ patched = {}
    /\ rop_gadgets = <<>>
    /\ guarded_chains = <<>>
    /\ final_payload = <<>>
    /\ stdin_pipe = <<>>
    /\ nsubmit = 0
    /\ status = ""
    /\ recovered = EmptyMap

Init ==
    /\ Locals
    /\ pc = "AWAIT_GADGETS"
    /\ round = 1
    /\ functions = <<>>
    /\ fidx = 1
    /\ guard_solutions = EmptyMap
    /\ chains = <<>>

Next ==
    \/ AwaitGadgets
    \/ BlobTest
    \/ ReadByte
    \/ BlobRead
    \/ BuildImage
    \/ RecoverStep
    \/ RecoverDone
    \/ Synthesize
    \/ Validate
    \/ Stitch
    \/ MoveChain
    \/ Submit
    \/ AwaitStatus
    \/ ReadFlag

Spec == Init /\ [][Next]_vars

\* the script is one thread that always takes its next step
FairSpec == Spec /\ WF_vars(Next)

(***************************************************************************)
(* The recovery loop alone, over every image.                              *)
(***************************************************************************)
InitRecover ==
    /\ Locals
    /\ pc = "RECOVER_GUARDS"
    /\ round = 1
    /\ functions \in AllImages
    /\ fidx = 1
    /\ guard_solutions = EmptyMap
    /\ chains = <<>>

NextRecover == RecoverStep \/ RecoverDone

SpecRecover == InitRecover /\ [][NextRecover]_vars

(***************************************************************************)
(* postprocess_chain alone, over chains and dicts of every shape.          *)
(***************************************************************************)
Pattern(n) == [i \in 1..n |-> i]

StitchPool == {GadgetAt(a, <<>>) : a \in 0..2}

StitchGadgetLists == UNION {[1..n -> StitchPool] : n \in 1..MaxChainLen}

RECURSIVE SumStack(_)
SumStack(gl) ==
    IF gl = <<>> THEN 0 ELSE Head(gl).stack_change + SumStack(Tail(gl))

StitchChains ==
    UNION {{[gadgets |-> gl, payload |-> Pattern(n)] :
              n \in AddrSize..(AddrSize + SumStack(gl) + ExtraBytes)} :
           gl \in StitchGadgetLists}

StitchSolutions ==
    {<<>>, SolverModel[1], SolverModel[1] \o SolverModel[2]}

StitchMaps == UNION {[D -> StitchSolutions] : D \in SUBSET (0..2)}

InitStitch ==
    /\ Locals
    /\ pc = "STITCH"
    /\ round = 1
    /\ functions = <<>>
    /\ fidx = 1
    /\ \E c \in StitchChains : chains = <<c>>
    /\ guard_solutions \in StitchMaps

NextStitch == Stitch

SpecStitch == InitStitch /\ [][NextStitch]_vars

(***************************************************************************)
(* Properties of the stitcher.  They are stated over the chains handed to  *)
(* line 166 and the results it returned, in the state right after it.      *)
(* Offsets count bytes from 0.                                             *)
(***************************************************************************)
Returned == pc = "MOVE_CHAIN"

\* 8 + the sum of the chain's stack changes
Budget(c) == AddrSize + SumStack(c.gadgets)

\* the raw offset where gadget i's own region (address and popped words) ends
RegionEnd(c, i) == SumStack(SubSeq(c.gadgets, 1, i))

\* the raw offset the solution of gadget i is injected at
InjectAt(c, i) == Min(Len(c.payload), RegionEnd(c, i))

SolOf(c, i) == guard_solutions[c.gadgets[i].addr]

RECURSIVE SolBytes(_, _)
\* bytes of solution injected for gadgets 1..i
SolBytes(c, i) == IF i = 0 THEN 0 ELSE Len(SolOf(c, i)) + SolBytes(c, i - 1)

\* the offset in the stitched payload where the solution of gadget i starts
SpanStart(c, i) == InjectAt(c, i) + SolBytes(c, i - 1)

RECURSIVE RemoveSpans(_, _, _)
\* s without the solution spans of gadgets 1..i
RemoveSpans(s, c, i) ==
    IF i = 0 THEN s
    ELSE RemoveSpans(SubSeq(s, 1, SpanStart(c, i))
                       \o SubSeq(s, SpanStart(c, i) + Len(SolOf(c, i)) + 1, Len(s)),
                     c, i - 1)

AllDefined(c) ==
    \A i \in 1..Len(c.gadgets) : c.gadgets[i].addr \in DOMAIN guard_solutions

\* C1: a returned stitched payload is as long as the raw payload plus the
\* solutions of the chain's gadgets, and with each injected solution span
\* deleted it is the raw payload again, byte for byte.
C1_StitchLengthAndInverse ==
    Returned =>
        \A k \in 1..Len(chains) :
            LET c == chains[k]
                n == Len(c.gadgets)
            IN  /\ Len(guarded_chains[k]) = Len(c.payload) + SolBytes(c, n)
                /\ RemoveSpans(guarded_chains[k], c, n) = c.payload

C1_Witness ==
    /\ Returned
    /\ Len(chains[1].gadgets) = 2
    /\ Len(chains[1].payload) = Budget(chains[1])
    /\ \A i \in 1..2 : Len(SolOf(chains[1], i)) > 0
    /\ chains[1].gadgets[1].stack_change > AddrSize
    /\ Len(guarded_chains[1]) > Len(chains[1].payload)

\* C2: in a returned stitched payload the solution of every gadget stands
\* right after the stack_change - 8 bytes the gadget pops and right before
\* the address slot of the next gadget, and the payload starts with the first
\* 8 raw bytes.
C2_SolutionPlacement ==
    Returned =>
        \A k \in 1..Len(chains) :
            LET c   == chains[k]
                out == guarded_chains[k]
                raw == c.payload
                h   == Min(AddrSize, Len(raw))
            IN  /\ SubSeq(out, 1, h) = SubSeq(raw, 1, h)
                /\ \A i \in 1..Len(c.gadgets) :
                     LET q    == SpanStart(c, i)
                         sol  == SolOf(c, i)
                         pops == c.gadgets[i].stack_change - AddrSize
                         e    == RegionEnd(c, i)
                         slot == Min(AddrSize, Len(raw) - InjectAt(c, i))
                     IN  /\ SubSeq(out, q + 1, q + Len(sol)) = sol
                         /\ e <= Len(raw) =>
                              SubSeq(out, q - pops + 1, q) = SubSeq(raw, e - pops + 1, e)
                         /\ SubSeq(out, q + Len(sol) + 1, q + Len(sol) + slot)
                              = SubSeq(raw, InjectAt(c, i) + 1, InjectAt(c, i) + slot)

C2_Witness ==
    /\ Returned
    /\ Len(chains[1].gadgets) = 2
    /\ Len(chains[1].payload) = Budget(chains[1])
    /\ chains[1].gadgets[1].stack_change > AddrSize
    /\ chains[1].gadgets[2].stack_change > AddrSize
    /\ SolOf(chains[1], 1) # <<>>
    /\ SolOf(chains[1], 2) # <<>>
    /\ SolOf(chains[1], 1) # SolOf(chains[1], 2)

\* C3 as claimed: a raw payload whose length differs from the budget, either
\* way, makes the stitcher fail.
C3_FailsOnAnyMismatch ==
    pc # "STITCH" =>
        \A k \in 1..Len(chains) :
            (AllDefined(chains[k]) /\ Len(chains[k].payload) # Budget(chains[k]))
                => (pc = "aborted" /\ error = "AssertionError")

\* C3 amended: with every address defined, the stitcher fails, with the
\* assertion of line 66, exactly when a chain's raw payload is longer than
\* the budget; a payload that is no longer than the budget is returned.
C3_FailsExactlyOnLeftover ==
    (pc # "STITCH" /\ \A k \in 1..Len(chains) : AllDefined(chains[k])) =>
        ((pc = "aborted" /\ error = "AssertionError")
            <=> \E k \in 1..Len(chains) :
                    Len(chains[k].payload) > Budget(chains[k]))

C3_Witness ==
    /\ pc = "aborted"
    /\ error = "AssertionError"
    /\ chains[1].gadgets # <<>>
    /\ AllDefined(chains[1])
    /\ Len(chains[1].payload) = Budget(chains[1]) + 1

(***************************************************************************)
(* Properties of the round.                                                *)
(***************************************************************************)
\* some gadget of some chain has no entry in the dict
Orphan ==
    \E k \in 1..Len(chains) : \E i \in 1..Len(chains[k].gadgets) :
        chains[k].gadgets[i].addr \notin DOMAIN guard_solutions

NothingSent == UNCHANGED <<stdin_pipe, nsubmit>>

\* C4: a chain that uses an address without a solution makes the round fail
\* at validation, with nothing stitched and nothing submitted, and no chain
\* reaches the stitcher with such an address.
C4_OrphanAbortsAtValidation ==
    [][/\ (pc = "VALIDATE" /\ Orphan) =>
             /\ pc' = "aborted"
             /\ error' = "AssertionError"
             /\ NothingSent
             /\ UNCHANGED <<guarded_chains, final_payload>>
       /\ pc = "STITCH" => ~Orphan
       /\ pc' = "STITCH" => ~Orphan']_vars

C4_Witness ==
    /\ pc = "aborted"
    /\ error = "AssertionError"
    /\ Orphan
    /\ \E k \in 1..Len(chains) :
          /\ Len(chains[k].gadgets) = 2
          /\ chains[k].gadgets[1].addr \in DOMAIN guard_solutions
    /\ guarded_chains = <<>>
    /\ nsubmit = round - 1

\* the path the recovery of f works on
GoodPath(f) == f.unconstrained[1]

HasSymbolicGuard(f) ==
    /\ f.nblocks > 1
    /\ f.unconstrained # <<>>
    /\ \E i \in 1..Len(GoodPath(f).guards) : GoodPath(f).guards[i].symbolic

ZeroGuardFunction(f) ==
    /\ f.nblocks > 1
    /\ f.unconstrained # <<>>
    /\ \A i \in 1..Len(GoodPath(f).guards) : ~GoodPath(f).guards[i].symbolic

\* C6: the recovery of a function whose good path has no symbolic guard does
\* not fail: it stores nothing and the loop goes on to the next function.
C6_ZeroGuardsDoNotFail ==
    [][(/\ pc = "RECOVER_GUARDS"
        /\ fidx <= Len(functions)
        /\ ZeroGuardFunction(functions[fidx]))
          => /\ pc' # "aborted"
             /\ fidx' = fidx + 1
             /\ guard_solutions' = guard_solutions]_vars

\* the phase of the round a position of the script belongs to
PhaseNo(p) ==
    CASE p \in {"AWAIT_GADGETS", "READ_BLOB", "READ_BYTE"} -> 1
      [] p = "BUILD_IMAGE"                    -> 2
      [] p = "RECOVER_GUARDS"                 -> 3
      [] p = "SYNTHESIZE_CHAINS"              -> 4
      [] p = "VALIDATE"                       -> 5
      [] p \in {"STITCH", "MOVE_CHAIN"}       -> 6
      [] p = "SUBMIT"                         -> 7
      [] p = "AWAIT_STATUS"                   -> 8
      [] OTHER                                -> 9

\* C7: inside a round the phases follow one another in the order of the
\* state machine, the one submission of a round comes after its stitching,
\* a new round starts only on status OK, a failure ends the run for good,
\* and there are at most five rounds.
C7_RoundStateMachine ==
    [][/\ pc \notin {"aborted", "done"}
       /\ round' <= NumRounds
       /\ \/ pc' = "aborted" /\ error' # "" /\ round' = round /\ nsubmit' = nsubmit
          \/ /\ PhaseNo(pc) < 8
             /\ PhaseNo(pc') \in {PhaseNo(pc), PhaseNo(pc) + 1}
             /\ round' = round
             /\ nsubmit' = IF pc = "SUBMIT" THEN nsubmit + 1 ELSE nsubmit
             /\ nsubmit' = IF pc' = "AWAIT_STATUS" THEN round ELSE round - 1
          \/ /\ pc = "AWAIT_STATUS"
             /\ status' = "OK"
             /\ nsubmit' = nsubmit
             /\ \/ pc' = "AWAIT_GADGETS" /\ round' = round + 1
                \/ pc' = "READ_FLAG" /\ round' = round /\ round = NumRounds
          \/ pc = "READ_FLAG" /\ pc' = "done" /\ round' = round /\ nsubmit' = nsubmit
      ]_vars

C7_Witness == pc = "done" /\ round = NumRounds /\ nsubmit = NumRounds

\* C8: every round that starts comes to its submission or to the end of the
\* run.
C8_EveryRoundEnds ==
    [](pc = "AWAIT_GADGETS" => <>(pc \in {"SUBMIT", "AWAIT_STATUS", "aborted"}))

CopiesRaxToRdx(g) ==
    \E i \in 1..Len(g.reg_moves) : g.reg_moves[i] = RaxToRdx

LittleEndian8(a) == <<a % 256, (a \div 256) % 256, 0, 0, 0, 0, 0, 0>>

\* C9: the payload of a round is the stitched open chain, the stitched read
\* chain, the move chain and the stitched write chain, in this order, the
\* move chain being the address of a gadget that copies rax to rdx followed
\* by the solution of that address; it is what is submitted; without such a
\* gadget, or without a solution for it, the run ends with nothing submitted.
C9_FinalPayloadOrder ==
    [][/\ pc = "MOVE_CHAIN" =>
            \/ /\ pc' = "SUBMIT"
               /\ \E i \in 1..Len(rop_gadgets) :
                     LET a == rop_gadgets[i].addr
                     IN  /\ CopiesRaxToRdx(rop_gadgets[i])
                         /\ a \in DOMAIN guard_solutions
                         /\ final_payload' =
                               guarded_chains[1] \o guarded_chains[2]
                                 \o LittleEndian8(a) \o guard_solutions[a]
                                 \o guarded_chains[3]
            \/ /\ pc' = "aborted"
               /\ NothingSent
               /\ \/ \A i \in 1..Len(rop_gadgets) : ~CopiesRaxToRdx(rop_gadgets[i])
                  \/ \E i \in 1..Len(rop_gadgets) :
                        /\ CopiesRaxToRdx(rop_gadgets[i])
                        /\ rop_gadgets[i].addr \notin DOMAIN guard_solutions
       /\ pc = "SUBMIT" => stdin_pipe' = final_payload]_vars

C9_Witness ==
    /\ pc = "AWAIT_STATUS"
    /\ \E a \in DOMAIN guard_solutions :
         \E o \in AddrSize..Len(stdin_pipe) :
            /\ guard_solutions[a] # <<>>
            /\ SubSeq(stdin_pipe, o + 1, o + AddrSize + Len(guard_solutions[a]))
                 = LittleEndian8(a) \o guard_solutions[a]
            /\ o + 2 * AddrSize + Len(guard_solutions[a]) <= Len(stdin_pipe)

\* C10: the dict is empty when a round's recovery starts, and what a round's
\* validation, stitching and move chain look up is what the recovery of that
\* same round stored.
C10_RoundIsolation ==
    /\ (pc = "RECOVER_GUARDS" /\ fidx = 1) => guard_solutions = EmptyMap
    /\ pc \in {"VALIDATE", "STITCH", "MOVE_CHAIN"} => guard_solutions = recovered

C10_Witness ==
    /\ round >= 2
    /\ pc = "STITCH"
    /\ status = "OK"
    /\ DOMAIN guard_solutions # {}

====
